---- MODULE Spec2Model ----
(***************************************************************************)
(* A model of the lms_synlect API endpoints (src/lms_synlect/api/auth.py   *)
(* and src/lms_synlect/api/course.py).  An endpoint is one action, and    *)
(* join_live_class is also the steps of a request that others interleave  *)
(* with; the host framework (document store, key/value cache with         *)
(* expirations, login manager) is the state the endpoints read and write. *)
(*                                                                         *)
(* Each endpoint action takes a fault point f: 0 means that no host call  *)
(* raises, k > 0 means that the k-th host call of the handler raises when *)
(* (and only when) execution reaches it.  The specifications of the       *)
(* components run fault free (f = 0); SpecFault injects every fault point.*)
(***************************************************************************)
EXTENDS Integers, Sequences, FiniteSets, TLC

VARIABLES
    component,    \* which group of endpoints the request sequence exercises
    now,          \* the cache's clock, in seconds
    cache,        \* frappe.cache(): key -> [val, exp]; an entry is live while now < exp
    users,        \* the User records: name (email) -> password
    nextToken,    \* number of values drawn from secrets.token_urlsafe so far
    usedRefresh,  \* history: refresh tokens a successful refresh_token consumed
    issued,       \* history: token -> [user, at, kind] for every token returned in a response
    loggedOut,    \* history: issued tokens that a logout deleted ('Bearer T')
    progressStore,\* "doctype" when a progress doctype exists, else "cache" (the fallback)
    progressDocs, \* the progress doctype's records, most recently modified first
    saved,        \* history: the latest successful save_progress (user and arguments)
    catalog,      \* the LMS Course records, newest first (creation desc)
    hasPriceColumn, \* whether LMS Course has a 'price' column beside 'course_price'
    preview,      \* the Course Lesson records with include_in_preview set
    enrolled,     \* the LMS Enrollment records: <<course, member>>
    liveClasses,  \* the live class records, by name
    hasCurrentParticipants,  \* the live class doctype has a current_participants field
    joinedOk,     \* history: per class, who joined with success since its attendance entry began
    reqs,         \* the join_live_class requests in progress, by worker
    last,         \* history: the last request (endpoint, effective arguments, raised)
    resp          \* the response envelope of the last request

authVars == <<users, nextToken, usedRefresh, issued, loggedOut>>
progressVars == <<progressStore, progressDocs, saved>>
catalogVars == <<catalog, hasPriceColumn>>
lessonVars == <<preview, enrolled>>
liveVars == <<liveClasses, hasCurrentParticipants, joinedOk, reqs>>
vars == <<component, now, cache, authVars, progressVars, catalogVars, lessonVars, liveVars, last, resp>>

None == "None"
Guest == "Guest"
EmptyMap == [k \in {} |-> None]

(***************************************************************************)
(* The key/value cache.                                                    *)
(***************************************************************************)
\* an entry is live until its expiry time
CacheHas(c, t, key) == key \in DOMAIN c /\ t < c[key].exp

\* frappe.cache().get_value(key): the value of a live entry, else None
CacheGet(c, t, key) ==
    IF key \in DOMAIN c /\ t < c[key].exp THEN c[key].val ELSE None

\* frappe.cache().set_value(key, val, expires_in_sec=ttl)
CacheSet(c, t, key, v, ttl) ==
    [k \in (DOMAIN c) \cup {key} |-> IF k = key THEN [val |-> v, exp |-> t + ttl] ELSE c[k]]

\* frappe.cache().delete_value(key)
CacheDeleteOmitted(c, key) == c
CacheDelete(c, key) == [k \in (DOMAIN c) \ {key} |-> c[k]]

ApiKey(token) == <<"api_token", token>>
RefreshKey(token) == <<"refresh_token", token>>

(***************************************************************************)
(* Tokens.  secrets.token_urlsafe(32) returns 43 URL-safe characters drawn *)
(* from 256 random bits; the n-th draw is modelled as the n-th name of a   *)
(* list of distinct non-empty strings (a collision of two draws is not     *)
(* modelled).                                                              *)
(***************************************************************************)
MaxTokens == 4
TokenNames == <<"tokA", "tokB", "tokC", "tokD", "tokE", "tokF", "tokG">>
TokenUrlsafe(n) == TokenNames[n]
Tokens == {TokenNames[i] : i \in 1..Len(TokenNames)}

ApiTokenTtl == 3600
ExpiresIn == 3600
RefreshTtlDay == 86400
RefreshTtlWeek == 604800

\* generate_api_token stores the token with a fixed expiry
GenerateApiTokenLongTtl(c, t, token, user) == CacheSet(c, t, ApiKey(token), user, RefreshTtlDay)
GenerateApiTokenWrongKey(c, t, token, user) == CacheSet(c, t, RefreshKey(token), user, ApiTokenTtl)
GenerateApiToken(c, t, token, user) == CacheSet(c, t, ApiKey(token), user, ApiTokenTtl)

ValidateApiToken(c, t, token) ==
    IF token = "" \/ token = None THEN None ELSE CacheGet(c, t, ApiKey(token))

(***************************************************************************)
(* Requests of the auth endpoints.  "" stands for a missing or empty       *)
(* argument (both are falsy in the handlers).  A request may carry a JSON  *)
(* body, which the handlers parse only when the email (or token) argument  *)
(* is missing; BadBody is a body json.loads rejects.                       *)
(***************************************************************************)
NoBody == [kind |-> "none"]
BadBody == [kind |-> "bad"]
Emails == {"a@x", "b@x"}
EmailInputs == Emails \cup {""}
PasswordInputs == {"", "short7c", "longpass1"}
NameInputs == {"", "Ann Lee"}
MinPasswordLen == 8

LoginBodies ==
    {BadBody} \cup [kind : {"json"}, email : {"", "a@x"}, password : {"", "longpass1"},
                    rememberMe : BOOLEAN]
LoginRequests ==
    [email : EmailInputs, password : PasswordInputs, remember_me : BOOLEAN, body : {NoBody}]
    \cup [email : {"", "a@x"}, password : {""}, remember_me : {FALSE}, body : LoginBodies]

\* auth.py 113-118: the arguments after the optional parse of the JSON body
LoginArgs(req) ==
    IF req.email = "" /\ req.body.kind # "none"
    THEN IF req.body.kind = "bad"
         THEN [jsonError |-> TRUE, email |-> "", password |-> "", remember_me |-> FALSE]
         ELSE [jsonError |-> FALSE, email |-> req.body.email, password |-> req.body.password,
               remember_me |-> req.body.rememberMe]
    ELSE [jsonError |-> FALSE, email |-> req.email, password |-> req.password,
          remember_me |-> req.remember_me]

\* frappe.local.login_manager.authenticate: raises AuthenticationError unless
\* the user exists and the password is the user's
Authenticates(u, email, password) == email \in DOMAIN u /\ u[email] = password

\* get_user_data: the user object of a response
GetUserData(user) == [id |-> user, email |-> user]

RefreshExpiryAlwaysDay(remember_me) == RefreshTtlDay
RefreshExpiry(remember_me) == IF remember_me THEN RefreshTtlWeek ELSE RefreshTtlDay

Issue(h, token, user, kind, remember) ==
    [k \in (DOMAIN h) \cup {token} |->
        IF k = token THEN [user |-> user, at |-> now, kind |-> kind, remember |-> remember]
        ELSE h[k]]

FailureWithoutMessage(msg) == [success |-> FALSE]
Failure(msg) == [success |-> FALSE, message |-> msg]

(***************************************************************************)
(* login.  Host calls: 1 authenticate/post_login (an exception other than  *)
(* AuthenticationError), 2 cache set of the API token, 3 cache set of the  *)
(* refresh token, 4 get_user_data, 5 db.commit.                            *)
(***************************************************************************)
LoginFaults == 0..5

Login(req, f) ==
    LET a == LoginArgs(req)
        token == TokenUrlsafe(nextToken + 1)
        refresh == TokenUrlsafe(nextToken + 2)
        user == a.email
        accepted == ~a.jsonError /\ a.email # "" /\ a.password # ""
                    /\ f # 1 /\ Authenticates(users, a.email, a.password)
        raised == a.jsonError
                  \/ (a.email # "" /\ a.password # "" /\ f = 1)
                  \/ (accepted /\ f \in 2..5)
        c1 == IF f = 2 THEN cache ELSE GenerateApiToken(cache, now, token, user)
        c2 == IF f \in 2..3 THEN c1
              ELSE CacheSet(c1, now, RefreshKey(refresh), user, RefreshExpiry(a.remember_me))
    IN
    /\ component = "auth"
    /\ accepted => nextToken + 2 <= MaxTokens
    /\ last' = [op |-> "login", raised |-> raised, accepted |-> accepted,
                user |-> IF accepted THEN user ELSE None]
    /\ IF ~accepted
       THEN /\ resp' = IF raised THEN Failure("An error occurred during login")
                       ELSE IF a.email = "" \/ a.password = ""
                            THEN Failure("Email and password are required")
                            ELSE Failure("Invalid email or password")
            /\ UNCHANGED <<cache, nextToken, issued>>
       ELSE /\ cache' = c2
            /\ nextToken' = IF f = 2 THEN nextToken + 1 ELSE nextToken + 2
            /\ IF raised
               THEN /\ resp' = Failure("An error occurred during login")
                    /\ UNCHANGED issued
               ELSE /\ resp' = [success |-> TRUE, user |-> GetUserData(user), token |-> token,
                                refreshToken |-> refresh, expiresIn |-> ExpiresIn,
                                message |-> "Login successful"]
                    /\ issued' = Issue(Issue(issued, token, user, "api", FALSE),
                                       refresh, user, "refresh", a.remember_me)
    /\ UNCHANGED <<component, now, users, usedRefresh, loggedOut, progressVars, catalogVars, lessonVars, liveVars>>

(***************************************************************************)
(* register.  Host calls: 1 db.exists("User"), 2 user.insert, 3 the role   *)
(* assignment, 4 db.commit, 5 login_as, 6 cache set of the API token,      *)
(* 7 cache set of the refresh token, 8 get_user_data.                      *)
(***************************************************************************)
RegisterFaults == 0..8
RegisterBodies ==
    {BadBody} \cup [kind : {"json"}, fullName : NameInputs, email : EmailInputs,
                    password : {"short7c", "longpass1"}, confirmPassword : {"longpass1"}]
RegisterRequests ==
    [full_name : NameInputs, email : EmailInputs, password : PasswordInputs,
     confirm_password : PasswordInputs, body : {NoBody}]
    \cup [full_name : {""}, email : {"", "b@x"}, password : {""}, confirm_password : {""},
          body : RegisterBodies]

\* auth.py 195-202
RegisterArgs(req) ==
    IF req.email = "" /\ req.body.kind # "none"
    THEN IF req.body.kind = "bad"
         THEN [jsonError |-> TRUE, full_name |-> "", email |-> "", password |-> "",
               confirm_password |-> ""]
         ELSE [jsonError |-> FALSE, full_name |-> req.body.fullName, email |-> req.body.email,
               password |-> req.body.password, confirm_password |-> req.body.confirmPassword]
    ELSE [jsonError |-> FALSE, full_name |-> req.full_name, email |-> req.email,
          password |-> req.password, confirm_password |-> req.confirm_password]

\* auth.py 204-229: the message of the validation that rejects the request, or None
RegisterRejectionNoLengthCheck(a, u) ==
    IF a.full_name = "" \/ a.email = "" \/ a.password = ""
    THEN "Full name, email, and password are required"
    ELSE IF a.password # a.confirm_password THEN "Passwords do not match"
    ELSE IF a.email \in DOMAIN u THEN "An account with this email already exists"
    ELSE None
RegisterRejection(a, u) ==
    IF a.full_name = "" \/ a.email = "" \/ a.password = ""
    THEN "Full name, email, and password are required"
    ELSE IF a.password # a.confirm_password THEN "Passwords do not match"
    ELSE IF Len(a.password) < MinPasswordLen THEN "Password must be at least 8 characters long"
    ELSE IF a.email \in DOMAIN u THEN "An account with this email already exists"
    ELSE None

Register(req, f) ==
    LET a == RegisterArgs(req)
        rejection == IF a.jsonError THEN "json" ELSE RegisterRejection(a, users)
        \* db.exists is reached once the three local validations passed
        reachesExists == ~a.jsonError /\ a.full_name # "" /\ a.email # "" /\ a.password # ""
                         /\ a.password = a.confirm_password /\ Len(a.password) >= MinPasswordLen
        proceeds == rejection = None /\ f # 1
        raised == a.jsonError \/ (reachesExists /\ f = 1) \/ (proceeds /\ f \in 2..8)
        token == TokenUrlsafe(nextToken + 1)
        refresh == TokenUrlsafe(nextToken + 2)
        inserted == proceeds /\ f # 2
        c1 == IF f \in 2..6 THEN cache ELSE GenerateApiToken(cache, now, token, a.email)
        c2 == IF f \in 2..7 THEN c1 ELSE CacheSet(c1, now, RefreshKey(refresh), a.email, RefreshTtlDay)
        errorMsg == "An error occurred during registration"
    IN
    /\ component = "auth"
    /\ proceeds => nextToken + 2 <= MaxTokens
    /\ last' = [op |-> "register", raised |-> raised, args |-> a]
    /\ users' = IF inserted
                THEN [e \in (DOMAIN users) \cup {a.email} |->
                         IF e = a.email THEN a.password ELSE users[e]]
                ELSE users
    /\ cache' = IF proceeds THEN c2 ELSE cache
    /\ nextToken' = IF ~proceeds \/ f \in 2..5 THEN nextToken
                    ELSE IF f = 6 THEN nextToken + 1 ELSE nextToken + 2
    /\ IF raised THEN resp' = Failure(errorMsg) /\ UNCHANGED issued
       ELSE IF rejection # None THEN resp' = Failure(rejection) /\ UNCHANGED issued
       ELSE /\ resp' = [success |-> TRUE, user |-> GetUserData(a.email), token |-> token,
                        refreshToken |-> refresh, expiresIn |-> ExpiresIn,
                        message |-> "Registration successful"]
            /\ issued' = Issue(Issue(issued, token, a.email, "api", FALSE),
                               refresh, a.email, "refresh", FALSE)
    /\ UNCHANGED <<component, now, usedRefresh, loggedOut, progressVars, catalogVars, lessonVars, liveVars>>

(***************************************************************************)
(* logout.  Host calls: 1 get_request_header, 2 cache delete, 3            *)
(* login_manager.logout, 4 db.commit.  The Authorization header is None or *)
(* 'Bearer <token>'.                                                       *)
(***************************************************************************)
LogoutFaults == 0..4
BearerInputs == {None} \cup {TokenNames[i] : i \in 1..MaxTokens}

Logout(bearer, f) ==
    LET deletes == bearer # None /\ f \notin 1..2
        raised == f = 1 \/ (f = 2 /\ bearer # None) \/ f \in 3..4
    IN
    /\ component = "auth"
    /\ last' = [op |-> "logout", raised |-> raised]
    /\ cache' = IF deletes THEN CacheDelete(cache, ApiKey(bearer)) ELSE cache
    /\ loggedOut' = IF deletes THEN loggedOut \cup ({bearer} \cap DOMAIN issued) ELSE loggedOut
    /\ resp' = IF raised THEN Failure("An error occurred during logout")
               ELSE [success |-> TRUE, message |-> "Logged out successfully"]
    /\ UNCHANGED <<component, now, users, nextToken, usedRefresh, issued, progressVars, catalogVars, lessonVars, liveVars>>

(***************************************************************************)
(* refresh_token.  Host calls: 1 cache get, 2 cache delete, 3 cache set of *)
(* the new API token, 4 cache set of the new refresh token.                *)
(***************************************************************************)
RefreshFaults == 0..4
RefreshInputs == {"", "bogus"} \cup {TokenNames[i] : i \in 1..MaxTokens}
RefreshRequests ==
    [refresh_token : RefreshInputs, body : {NoBody}]
    \cup [refresh_token : {"", "bogus"}, body : {BadBody} \cup [kind : {"json"}, refreshToken : RefreshInputs]]

\* auth.py 381-384
RefreshArgs(req) ==
    IF req.refresh_token = "" /\ req.body.kind # "none"
    THEN IF req.body.kind = "bad" THEN [jsonError |-> TRUE, refresh_token |-> ""]
         ELSE [jsonError |-> FALSE, refresh_token |-> req.body.refreshToken]
    ELSE [jsonError |-> FALSE, refresh_token |-> req.refresh_token]

\* auth.py 402-403: the old refresh token is deleted
DeleteOldRefreshOmitted(c, key) == c
DeleteOldRefresh(c, key) == CacheDelete(c, key)

RefreshToken(req, f) ==
    LET a == RefreshArgs(req)
        r == a.refresh_token
        given == ~a.jsonError /\ r # ""
        user == IF given /\ f # 1 THEN CacheGet(cache, now, RefreshKey(r)) ELSE None
        valid == user # None
        raised == a.jsonError \/ (given /\ f = 1) \/ (valid /\ f \in 2..4)
        token == TokenUrlsafe(nextToken + 1)
        refresh == TokenUrlsafe(nextToken + 2)
        c0 == IF f = 2 THEN cache ELSE DeleteOldRefresh(cache, RefreshKey(r))
        c1 == IF f \in 2..3 THEN c0 ELSE GenerateApiToken(c0, now, token, user)
        c2 == IF f \in 2..4 THEN c1 ELSE CacheSet(c1, now, RefreshKey(refresh), user, RefreshTtlDay)
    IN
    /\ component = "auth"
    /\ valid => nextToken + 2 <= MaxTokens
    /\ last' = [op |-> "refresh_token", raised |-> raised, token |-> r, user |-> user]
    /\ cache' = IF valid THEN c2 ELSE cache
    /\ nextToken' = IF ~valid \/ f = 2 THEN nextToken
                    ELSE IF f = 3 THEN nextToken + 1 ELSE nextToken + 2
    /\ IF raised
       THEN resp' = Failure("An error occurred while refreshing token")
            /\ UNCHANGED <<issued, usedRefresh>>
       ELSE IF ~given
       THEN resp' = Failure("Refresh token is required") /\ UNCHANGED <<issued, usedRefresh>>
       ELSE IF ~valid
       THEN resp' = Failure("Invalid or expired refresh token")
            /\ UNCHANGED <<issued, usedRefresh>>
       ELSE /\ resp' = [success |-> TRUE, token |-> token, refreshToken |-> refresh,
                        expiresIn |-> ExpiresIn, message |-> "Token refreshed successfully"]
            /\ issued' = Issue(Issue(issued, token, user, "api", FALSE),
                               refresh, user, "refresh", FALSE)
            /\ usedRefresh' = usedRefresh \cup {r}
    /\ UNCHANGED <<component, now, users, loggedOut, progressVars, catalogVars, lessonVars, liveVars>>

(***************************************************************************)
(* Time passes between requests: the clock moves to a later one of the     *)
(* instants around the expiry times.                                       *)
(***************************************************************************)
Instants == {0, 1, 3599, 3600, 3601}

Tick(t) ==
    /\ t > now
    /\ now' = t
    /\ UNCHANGED <<component, cache, authVars, progressVars, catalogVars, lessonVars, liveVars, last, resp>>


(***************************************************************************)
(* Course progress (course.py 1174-1517).  The catalogue the progress      *)
(* endpoints read is fixed: course c1 with chapter ch1 and its lessons.    *)
(* An optional numeric argument is <<>> (None) or <<n>>.  The progress     *)
(* doctype is taken to have the fields the handlers write (lesson,         *)
(* chapter, progress, is_complete); video_position and notes are left out. *)
(***************************************************************************)
Courses == {"c1"}
Chapters == [ch \in {"ch1"} |-> "c1"]
Lessons == [l \in {"l1", "l2"} |-> "ch1"]
CourseInputs == {"", "c1", "cX"}
LessonInputs == {"", "l1", "l2"}
SessionUsers == {"a@x", "b@x", Guest}
Members == SessionUsers \ {Guest}
PercentInputs == {<<>>, <<0>>, <<100>>}
MaxDocs == 2
YearTtl == 31536000

\* frappe.utils.flt on an optional number
Flt(x) == IF x = <<>> THEN 0 ELSE x[1]
\* truthiness of an optional number
Truthy(x) == x # <<>> /\ x[1] # 0

\* json.dumps / json.loads: the cache holds the encoded text, not the object
JsonDumps(x) == [json |-> x]
JsonLoads(j) == j.json

LessonsOfCourse(course) ==
    {l \in DOMAIN Lessons : Lessons[l] \in DOMAIN Chapters /\ Chapters[Lessons[l]] = course}

\* frappe.get_all(progress_doctype, filters): indices of the matching records
MatchingDocsNone(docs, course, member, lesson) == {}
MatchingDocs(docs, course, member, lesson) ==
    {i \in 1..Len(docs) : /\ docs[i].course = course
                          /\ docs[i].member = member
                          /\ (lesson # "" => docs[i].lesson = lesson)}
FirstOf(S) == CHOOSE i \in S : \A j \in S : i <= j

Remove(docs, i) == [k \in 1..(Len(docs) - 1) |-> IF k < i THEN docs[k] ELSE docs[k + 1]]

ProgressKey(user, course, lesson) ==
    IF lesson # "" THEN <<"lesson_progress", user, lesson>>
    ELSE <<"course_progress", user, course>>

\* course.py 1274-1278: the fields save_progress updates on the record
UpdateFieldsResetting(doc, percent, completed) ==
    [doc EXCEPT !.progress = IF percent # <<>> THEN Flt(percent) ELSE @,
                !.is_complete = IF completed THEN 1 ELSE 0]
UpdateFields(doc, percent, completed) ==
    [doc EXCEPT !.progress = IF percent # <<>> THEN Flt(percent) ELSE @,
                !.is_complete = IF completed THEN 1 ELSE @]

(***************************************************************************)
(* save_progress as a function of the stores.  Host calls: 1               *)
(* db.exists("LMS Course"), 2 db.exists("DocType"); with the cache         *)
(* fallback 3 cache set; with a doctype 3 get_all, 4 get_doc/new_doc, 5    *)
(* save, 6 db.commit.  The result is the stores after the call, the        *)
(* response and whether a host call raised.                                *)
(***************************************************************************)
SaveFaults == 0..6

SaveProgressResult(store, docs, c, t, user, a, f) ==
    LET unchanged(r, raised) == [docs |-> docs, cache |-> c, resp |-> r, raised |-> raised]
        errored == unchanged(Failure("An error occurred while saving progress"), TRUE)
        ok == [success |-> TRUE, message |-> "Progress saved successfully"]
    IN
    IF user = Guest THEN unchanged(Failure("Authentication required to save progress"), FALSE)
    ELSE IF a.course = "" THEN unchanged(Failure("Course ID is required"), FALSE)
    ELSE IF f = 1 THEN errored
    ELSE IF a.course \notin Courses THEN unchanged(Failure("Course not found"), FALSE)
    ELSE IF f = 2 THEN errored
    ELSE IF store = "cache"
    THEN IF f = 3 THEN errored
         ELSE [docs |-> docs,
               cache |-> CacheSet(c, t, ProgressKey(user, a.course, a.lesson),
                                  JsonDumps([user |-> user, course_id |-> a.course,
                                             lesson_id |-> a.lesson,
                                             progress_percent |->
                                                 IF Truthy(a.percent) THEN Flt(a.percent) ELSE 0,
                                             is_completed |-> a.completed]),
                                  YearTtl),
               resp |-> ok, raised |-> FALSE]
    ELSE IF f \in 3..5 THEN errored
    ELSE LET found == MatchingDocs(docs, a.course, user, a.lesson)
             doc == IF found # {} THEN docs[FirstOf(found)]
                    ELSE [course |-> a.course, member |-> user, lesson |-> a.lesson,
                          progress |-> 0, is_complete |-> 0]
             rest == IF found # {} THEN Remove(docs, FirstOf(found)) ELSE docs
             docs2 == <<UpdateFields(doc, a.percent, a.completed)>> \o rest
         IN [docs |-> docs2, cache |-> c,
             resp |-> IF f = 6 THEN errored.resp ELSE ok, raised |-> f = 6]

(***************************************************************************)
(* get_progress as a function of the stores.  Host calls: 1                *)
(* db.exists("DocType"), 2 the reads of the progress and of the lessons.   *)
(***************************************************************************)
GetFaults == 0..2

CachedLessonProgress(c, t, user, course) ==
    {JsonLoads(CacheGet(c, t, <<"lesson_progress", user, l>>)) :
        l \in {x \in LessonsOfCourse(course) :
                  /\ <<"lesson_progress", user, x>> \in DOMAIN c
                  /\ t < c[<<"lesson_progress", user, x>>].exp}}

GetProgressResult(store, docs, c, t, user, course, lesson, f) ==
    LET done(r) == [resp |-> r, raised |-> FALSE]
        errored == [resp |-> Failure("An error occurred while fetching progress"),
                    raised |-> TRUE]
        total == Cardinality(LessonsOfCourse(course))
    IN
    IF user = Guest THEN done(Failure("Authentication required to view progress"))
    ELSE IF course = "" THEN done(Failure("Course ID is required"))
    ELSE IF f \in 1..2 THEN errored
    ELSE IF store = "cache"
    THEN IF lesson # ""
         THEN LET key == <<"lesson_progress", user, lesson>>
              IN IF key \in DOMAIN c /\ t < c[key].exp
                 THEN done([success |-> TRUE, kind |-> "cached",
                            progress |-> JsonLoads(CacheGet(c, t, key))])
                 ELSE done([success |-> TRUE, kind |-> "none"])
         ELSE LET ps == CachedLessonProgress(c, t, user, course)
              IN done([success |-> TRUE, kind |-> "course",
                       progress |-> [courseId |-> course,
                                     completedLessons |->
                                         Cardinality({p \in ps : p.is_completed}),
                                     totalLessons |-> total]])
    ELSE IF lesson # ""
         THEN LET found == {i \in MatchingDocs(docs, course, user, lesson) :
                               docs[i].lesson = lesson}
              IN IF found # {}
                 THEN done([success |-> TRUE, kind |-> "record",
                            progress |-> [lessonId |-> lesson,
                                          progressPercent |-> docs[FirstOf(found)].progress,
                                          isCompleted |-> docs[FirstOf(found)].is_complete # 0]])
                 ELSE done([success |-> TRUE, kind |-> "none"])
         ELSE LET all == MatchingDocs(docs, course, user, "")
              IN done([success |-> TRUE, kind |-> "course",
                       progress |-> [courseId |-> course,
                                     completedLessons |->
                                         Cardinality({i \in all : docs[i].is_complete # 0}),
                                     totalLessons |-> total]])

SaveRequests ==
    [course : CourseInputs, lesson : LessonInputs, percent : PercentInputs, completed : BOOLEAN]
\* the calls of the model: every request by a@x, some by b@x, one by a guest
SaveCalls ==
    ({"a@x"} \X SaveRequests)
    \cup ({"b@x"} \X [course : {"c1"}, lesson : {"l1"}, percent : {<<0>>, <<100>>},
                      completed : BOOLEAN])
    \cup ({Guest} \X [course : {"c1"}, lesson : {"l1"}, percent : {<<100>>}, completed : {TRUE}])
GetCalls ==
    ({"a@x"} \X CourseInputs \X LessonInputs)
    \cup ({"b@x", Guest} \X {"c1"} \X {"", "l1"})

SaveProgress(user, a, f) ==
    LET r == SaveProgressResult(progressStore, progressDocs, cache, now, user, a, f)
    IN
    /\ component = "progress"
    /\ Len(r.docs) <= MaxDocs
    /\ Cardinality(DOMAIN r.cache) <= MaxDocs
    /\ progressDocs' = r.docs
    /\ cache' = r.cache
    /\ resp' = r.resp
    /\ last' = [op |-> "save_progress", raised |-> r.raised]
    /\ saved' = IF r.resp.success THEN [user |-> user, args |-> a] ELSE saved
    /\ UNCHANGED <<component, now, authVars, progressStore, catalogVars, lessonVars, liveVars>>

GetProgress(user, course, lesson, f) ==
    LET r == GetProgressResult(progressStore, progressDocs, cache, now, user, course, lesson, f)
    IN
    /\ component = "progress"
    /\ resp' = r.resp
    /\ last' = [op |-> "get_progress", raised |-> r.raised]
    /\ UNCHANGED <<component, now, cache, authVars, progressVars, catalogVars, lessonVars, liveVars>>

(***************************************************************************)
(* mark_lesson_complete: the course is looked up from the lesson when it   *)
(* is not given, then save_progress(course, lesson, 100, True) and         *)
(* get_progress(course) run as nested calls.  Fault points: 1 the lesson   *)
(* lookup, 10 + k the k-th host call of the nested save_progress, 20 + k   *)
(* the k-th of the nested get_progress.  An optional value of a response   *)
(* is <<>> (None) or <<v>>.                                                *)
(***************************************************************************)
MarkFaults == {0, 1} \cup {10 + k : k \in 1..6} \cup {20 + k : k \in 1..2}
MarkLessonInputs == LessonInputs \cup {"lX"}

\* course.py 1476-1484: the course of the lesson, "" when it has none
CourseOfLesson(lesson) ==
    IF Lessons[lesson] \in DOMAIN Chapters THEN Chapters[Lessons[lesson]] ELSE ""

MarkLessonCompleteResult(store, docs, c, t, user, lesson, courseArg, f) ==
    LET unchanged(r, raised) ==
            [docs |-> docs, cache |-> c, resp |-> r, raised |-> raised, nested |-> FALSE]
        errored == unchanged(Failure("An error occurred while marking lesson complete"), TRUE)
        course == IF courseArg # "" THEN courseArg
                  ELSE IF lesson \in DOMAIN Lessons THEN CourseOfLesson(lesson) ELSE ""
        sv == SaveProgressResult(store, docs, c, t, user,
                                 [course |-> course, lesson |-> lesson, percent |-> <<100>>,
                                  completed |-> TRUE],
                                 IF f \in 11..16 THEN f - 10 ELSE 0)
        gp == GetProgressResult(store, sv.docs, sv.cache, t, user, course, "",
                                IF f \in 21..22 THEN f - 20 ELSE 0)
    IN
    IF user = Guest THEN unchanged(Failure("Authentication required"), FALSE)
    ELSE IF lesson = "" THEN unchanged(Failure("Lesson ID is required"), FALSE)
    ELSE IF courseArg = "" /\ (f = 1 \/ lesson \notin DOMAIN Lessons) THEN errored
    ELSE IF course = ""
    THEN unchanged(Failure("Could not determine course for this lesson"), FALSE)
    ELSE IF ~sv.resp.success
    THEN [docs |-> sv.docs, cache |-> sv.cache, resp |-> sv.resp, raised |-> sv.raised,
          nested |-> FALSE]
    ELSE [docs |-> sv.docs, cache |-> sv.cache,
          resp |-> [success |-> TRUE, message |-> "Lesson marked as complete",
                    courseProgress |-> IF gp.resp.success THEN <<gp.resp.progress>> ELSE <<>>],
          raised |-> gp.raised, nested |-> gp.raised]

\* history: get_progress for the lesson reports it completed
LessonReportedComplete(store, docs, c, t, user, lesson, courseArg) ==
    /\ user # Guest /\ lesson \in DOMAIN Lessons
    /\ LET course == IF courseArg # "" THEN courseArg ELSE CourseOfLesson(lesson)
           r == GetProgressResult(store, docs, c, t, user, course, lesson, 0).resp
       IN /\ r.success /\ r.kind \in {"cached", "record"}
          /\ IF r.kind = "cached" THEN r.progress.is_completed ELSE r.progress.isCompleted

MarkCalls ==
    ({"a@x"} \X MarkLessonInputs \X {"", "c1"})
    \cup ({"b@x", Guest} \X {"l1"} \X {"c1"})

MarkLessonComplete(user, lesson, courseArg, f) ==
    LET r == MarkLessonCompleteResult(progressStore, progressDocs, cache, now, user, lesson,
                                      courseArg, f)
    IN
    /\ component = "progress"
    /\ Len(r.docs) <= MaxDocs
    /\ Cardinality(DOMAIN r.cache) <= MaxDocs
    /\ progressDocs' = r.docs
    /\ cache' = r.cache
    /\ resp' = r.resp
    /\ last' = [op |-> "mark_lesson_complete", raised |-> r.raised, nested |-> r.nested,
                repeat |-> LessonReportedComplete(progressStore, progressDocs, cache, now,
                                                  user, lesson, courseArg)]
    /\ saved' = IF r.resp.success
                THEN [user |-> user,
                      args |-> [course |-> IF courseArg # "" THEN courseArg
                                           ELSE CourseOfLesson(lesson),
                                lesson |-> lesson, percent |-> <<100>>, completed |-> TRUE]]
                ELSE saved
    /\ UNCHANGED <<component, now, authVars, progressStore, catalogVars, lessonVars, liveVars>>

NoSave == [user |-> Guest,
           args |-> [course |-> "", lesson |-> "", percent |-> <<>>, completed |-> FALSE]]

(***************************************************************************)
(* Two deployments served the same calls: one with a progress doctype,     *)
(* whose records are progressDocs, and one without, whose entries are in   *)
(* cache.  Each step is one call handled by both (course.py 1224-1285,     *)
(* 1447-1517); last.same tells whether the two envelopes were equal.       *)
(***************************************************************************)
\* the calls that carry a lesson_id
LessonSaveCalls == {call \in SaveCalls : call[2].lesson # "" /\ call[1] # Guest}
LessonMarkCalls == {call \in MarkCalls : call[2] # "" /\ call[1] # Guest}

SaveProgressOnBoth(user, a) ==
    LET d == SaveProgressResult("doctype", progressDocs, EmptyMap, now, user, a, 0)
        k == SaveProgressResult("cache", <<>>, cache, now, user, a, 0)
    IN
    /\ component = "stores"
    /\ Len(d.docs) <= MaxDocs
    /\ Cardinality(DOMAIN k.cache) <= MaxDocs
    /\ progressDocs' = d.docs
    /\ cache' = k.cache
    /\ resp' = d.resp
    /\ last' = [op |-> "save_progress", raised |-> FALSE, same |-> d.resp = k.resp]
    /\ saved' = IF d.resp.success THEN [user |-> user, args |-> a] ELSE saved
    /\ UNCHANGED <<component, now, authVars, progressStore, catalogVars, lessonVars, liveVars>>

MarkLessonCompleteOnBoth(user, lesson, courseArg) ==
    LET d == MarkLessonCompleteResult("doctype", progressDocs, EmptyMap, now, user, lesson,
                                      courseArg, 0)
        k == MarkLessonCompleteResult("cache", <<>>, cache, now, user, lesson, courseArg, 0)
    IN
    /\ component = "stores"
    /\ Len(d.docs) <= MaxDocs
    /\ Cardinality(DOMAIN k.cache) <= MaxDocs
    /\ progressDocs' = d.docs
    /\ cache' = k.cache
    /\ resp' = d.resp
    /\ last' = [op |-> "mark_lesson_complete", raised |-> FALSE, nested |-> FALSE,
                same |-> d.resp = k.resp]
    /\ saved' = IF d.resp.success
                THEN [user |-> user,
                      args |-> [course |-> IF courseArg # "" THEN courseArg
                                           ELSE CourseOfLesson(lesson),
                                lesson |-> lesson, percent |-> <<100>>, completed |-> TRUE]]
                ELSE saved
    /\ UNCHANGED <<component, now, authVars, progressStore, catalogVars, lessonVars, liveVars>>


(***************************************************************************)
(* The course catalogue (course.py 118-403).  A course record carries the  *)
(* columns get_courses reads; rating and students stand for the results of *)
(* get_course_rating and get_course_stats; words are the lower-cased words *)
(* of its title, description and owner.  An optional number is <<>> or     *)
(* <<n>>.  The level and instructor filters, which have the shape of the   *)
(* category filter, are left out.                                          *)
(***************************************************************************)
MaxCourses == 3
CoursePool ==
    {[name |-> "Web 101", published |-> 1, category |-> "web", paid |-> 1,
      course_price |-> <<20>>, price |-> <<>>, rating |-> 4, students |-> 2, words |-> {"web"}],
     [name |-> "web-101", published |-> 1, category |-> "web", paid |-> 0,
      course_price |-> <<0>>, price |-> <<10>>, rating |-> 0, students |-> 5, words |-> {"web"}],
     [name |-> "Data", published |-> 1, category |-> "data", paid |-> 1,
      course_price |-> <<10>>, price |-> <<30>>, rating |-> 5, students |-> 0, words |-> {"data"}],
     [name |-> "Draft", published |-> 0, category |-> "data", paid |-> 1,
      course_price |-> <<>>, price |-> <<>>, rating |-> 0, students |-> 0, words |-> {"data"}]}

Catalogs ==
    {q \in UNION {[1..n -> CoursePool] : n \in 0..MaxCourses} :
        \A i, j \in DOMAIN q : i # j => q[i] # q[j]}

\* a page or page_size argument: an integer, a non-numeric text, or absent
IntArg(n) == [kind |-> "int", v |-> n]
TextArg == [kind |-> "text", v |-> 0]
NoArg == [kind |-> "none", v |-> 0]
\* frappe.utils.cint
Cint(x) == IF x.kind = "int" THEN x.v ELSE 0
\* cint(x) or d
CintOr(x, d) == IF Cint(x) # 0 THEN Cint(x) ELSE d

\* str.lower() on the search terms of the model
Lower(w) == IF w = "Web" THEN "web" ELSE IF w = "Data" THEN "data" ELSE w

\* course.py 126-140: the price format_course_for_frontend reports
ReportedPrice(course, priceColumn) ==
    IF priceColumn THEN Flt(course.price) ELSE Flt(course.course_price)

\* course.py 346: the price the range filter compares
FilterPrice(course, priceColumn) ==
    IF Truthy(course.course_price) THEN Flt(course.course_price)
    ELSE IF priceColumn /\ Truthy(course.price) THEN Flt(course.price)
    ELSE 0

\* the characters of the course names and slug arguments of the model
Chars(text) ==
    IF text = "Web 101" THEN <<"W", "e", "b", " ", "1", "0", "1">>
    ELSE IF text = "web-101" THEN <<"w", "e", "b", "-", "1", "0", "1">>
    ELSE IF text = "Web-101" THEN <<"W", "e", "b", "-", "1", "0", "1">>
    ELSE IF text = "Data" THEN <<"D", "a", "t", "a">>
    ELSE IF text = "data" THEN <<"d", "a", "t", "a">>
    ELSE IF text = "Draft" THEN <<"D", "r", "a", "f", "t">>
    ELSE IF text = "draft" THEN <<"d", "r", "a", "f", "t">>
    ELSE <<>>
\* str.lower() on those characters
LowerChar(ch) == IF ch = "W" THEN "w" ELSE IF ch = "D" THEN "d" ELSE ch
LowerText(q) == [i \in DOMAIN q |-> LowerChar(q[i])]
\* str.replace(" ", "-")
ReplaceSpaces(q) == [i \in DOMAIN q |-> IF q[i] = " " THEN "-" ELSE q[i]]
\* course.py 173: course_doc.name.lower().replace(" ", "-")
Slug(name) == ReplaceSpaces(LowerText(Chars(name)))

\* course.py 118-191
FormatCourseForFrontend(course, priceColumn) ==
    [id |-> course.name, slug |-> Slug(course.name), category |-> course.category,
     price |-> ReportedPrice(course, priceColumn), rating |-> course.rating,
     students |-> course.students, isFree |-> ReportedPrice(course, priceColumn) = 0]

\* course.py 264-294: the filters handed to frappe.get_all
MatchesDbFilters(course, a) ==
    /\ course.published = 1
    /\ a.category # "" => course.category = a.category
    /\ a.price_type = "free" => course.paid = 0
    /\ a.price_type = "paid" => course.paid = 1

\* course.py 326-337
MatchesSearch(course, a) == a.search # "" => Lower(a.search) \in course.words

\* course.py 339-349; NoMax stands for float('inf')
MatchesPriceRange(course, a, priceColumn) ==
    (a.min_price # <<>> \/ a.max_price # <<>>) =>
        /\ (IF Truthy(a.min_price) THEN Flt(a.min_price) ELSE 0) <= FilterPrice(course, priceColumn)
        /\ Truthy(a.max_price) => FilterPrice(course, priceColumn) <= Flt(a.max_price)

\* course.py 364-367
MatchesRating(course, a) == Truthy(a.rating) => course.rating >= Flt(a.rating)

\* ORDER BY course_price: NULL sorts as the smallest value
DbPriceKey(course) == IF course.course_price = <<>> THEN -1 ELSE course.course_price[1]

\* the key of each sort order, smaller first
SortKey(x, by) ==
    IF by = "price_low" THEN DbPriceKey(x)
    ELSE IF by = "price_high" THEN 0 - DbPriceKey(x)
    ELSE IF by = "popular" THEN 0 - x.students
    ELSE 0 - x.rating

\* a stable sort of q by its key, ascending: insertion from the left
RECURSIVE InsertSorted(_, _, _)
InsertSorted(q, x, by) ==
    IF q = <<>> THEN <<x>>
    ELSE IF SortKey(x, by) < SortKey(Head(q), by) THEN <<x>> \o q
    ELSE <<Head(q)>> \o InsertSorted(Tail(q), x, by)
RECURSIVE StableSort(_, _)
StableSort(q, by) ==
    IF q = <<>> THEN <<>>
    ELSE InsertSorted(StableSort(SubSeq(q, 1, Len(q) - 1), by), q[Len(q)], by)

\* course.py 303-324: the order of frappe.get_all
OrderBy(q, sort_by) ==
    IF sort_by \in {"price_low", "price_high"} THEN StableSort(q, sort_by) ELSE q

\* course.py 369-373
SortFormatted(q, sort_by) ==
    IF sort_by \in {"popular", "rating"} THEN StableSort(q, sort_by) ELSE q

\* Python's list[start:end]
PyIndex(i, n) == IF i < 0 THEN (IF i + n < 0 THEN 0 ELSE i + n) ELSE (IF i > n THEN n ELSE i)
PySlice(q, start, end) == SubSeq(q, PyIndex(start, Len(q)) + 1, PyIndex(end, Len(q)))

\* course.py 377
TotalPagesFloor(count, page_size) == IF page_size > 0 THEN count \div page_size ELSE 1
TotalPages(count, page_size) ==
    IF page_size > 0 THEN (count + page_size - 1) \div page_size ELSE 1

(***************************************************************************)
(* get_courses.  Host calls: 1 db.exists("DocType"), 2 has_column, 3       *)
(* get_all, 4 the reads of format_course_for_frontend.                     *)
(***************************************************************************)
GetCoursesFaults == 0..4

GetCoursesResult(cat, priceColumn, a, f) ==
    LET page == CintOr(a.page, 1)
        page_size == CintOr(a.page_size, 10)
        Keep(course) == /\ MatchesDbFilters(course, a) /\ MatchesSearch(course, a)
                        /\ MatchesPriceRange(course, a, priceColumn)
        KeepRating(course) == MatchesRating(course, a)
        all_courses == SelectSeq(OrderBy(cat, a.sort_by), Keep)
        formatted == [i \in 1..Len(all_courses) |->
                         FormatCourseForFrontend(all_courses[i], priceColumn)]
        rated == SortFormatted(SelectSeq(formatted, KeepRating), a.sort_by)
        total_count == Len(rated)
    IN
    IF f # 0
    THEN [resp |-> [success |-> FALSE, message |-> "An error occurred while fetching courses",
                    courses |-> <<>>, totalCount |-> 0, pageSize |-> page_size,
                    currentPage |-> page, totalPages |-> 0],
          raised |-> TRUE]
    ELSE [resp |-> [success |-> TRUE,
                    courses |-> PySlice(rated, (page - 1) * page_size,
                                        (page - 1) * page_size + page_size),
                    totalCount |-> total_count, pageSize |-> page_size,
                    currentPage |-> page, totalPages |-> TotalPages(total_count, page_size)],
          raised |-> FALSE]

PageInputs == {NoArg, TextArg} \cup {IntArg(n) : n \in -1..3}
DefaultCourseRequest ==
    [category |-> "", price_type |-> "", min_price |-> <<>>, max_price |-> <<>>,
     rating |-> <<>>, search |-> "", sort_by |-> "", page |-> NoArg, page_size |-> NoArg]
\* the requests of the model: the filters with the default paging, the paging
\* with some filters, and the sort orders
CourseRequests ==
    {[DefaultCourseRequest EXCEPT !.category = c, !.price_type = t, !.rating = r, !.search = w] :
        c \in {"", "web"}, t \in {"", "free", "paid"}, r \in {<<>>, <<4>>}, w \in {"", "Web"}}
    \cup {[DefaultCourseRequest EXCEPT !.min_price = lo, !.max_price = hi] :
            lo \in {<<>>, <<0>>, <<10>>}, hi \in {<<>>, <<0>>, <<10>>}}
    \cup {[DefaultCourseRequest EXCEPT !.page = pg, !.page_size = ps] :
            pg \in PageInputs, ps \in PageInputs}
    \cup {[DefaultCourseRequest EXCEPT !.category = "web", !.page = pg, !.page_size = ps] :
            pg \in {IntArg(1), IntArg(2)}, ps \in {IntArg(1), IntArg(2)}}
    \cup {[DefaultCourseRequest EXCEPT !.sort_by = o, !.page = pg, !.page_size = IntArg(2)] :
            o \in {"newest", "popular", "rating", "price_low", "price_high"},
            pg \in {IntArg(1), IntArg(2)}}

GetCourses(a, f) ==
    LET r == GetCoursesResult(catalog, hasPriceColumn, a, f)
    IN
    /\ component = "catalog"
    /\ resp' = r.resp
    /\ last' = [op |-> "get_courses", raised |-> r.raised, args |-> a]
    /\ UNCHANGED <<component, now, cache, authVars, progressVars, catalogVars, lessonVars, liveVars>>

(***************************************************************************)
(* get_course (course.py 407-465).  Host calls: 1 the get_all of the slug  *)
(* lookup, 2 db.exists, 3 get_doc, 4 the reads of the formatter.  The      *)
(* get_all names no order, so the host decides it: hostOrder is the        *)
(* catalogue newest first or oldest first.                                 *)
(***************************************************************************)
GetCourseFaults == 0..4
CourseIdInputs == {"", "Web 101", "Draft", "cX"}
SlugInputs == {"", "web-101", "Web-101", "data", "draft", "nope"}
HostOrders == {"newest", "oldest"}

Reverse(q) == [i \in DOMAIN q |-> q[Len(q) + 1 - i]]

\* course.py 431-440: the name of the first course whose slug is the
\* lower-cased argument, "" when there is none
FindBySlug(courses, slug) ==
    LET hits == {i \in DOMAIN courses : Slug(courses[i].name) = LowerText(Chars(slug))}
    IN IF hits = {} THEN ""
       ELSE courses[CHOOSE i \in hits : \A j \in hits : i <= j].name

GetCourseResult(cat, priceColumn, course_id, slug, hostOrder, f) ==
    LET bySlug == slug # "" /\ course_id = ""
        courses == IF hostOrder = "newest" THEN cat ELSE Reverse(cat)
        course_name == IF bySlug THEN FindBySlug(courses, slug) ELSE course_id
        exists == \E i \in DOMAIN cat : cat[i].name = course_name
        course_doc == cat[CHOOSE i \in DOMAIN cat : cat[i].name = course_name]
        error == [resp |-> Failure("An error occurred while fetching course details"),
                  raised |-> TRUE]
    IN
    IF course_id = "" /\ slug = ""
    THEN [resp |-> Failure("Course ID or slug is required"), raised |-> FALSE]
    ELSE IF f = 1 /\ bySlug THEN error
    ELSE IF course_name = "" THEN [resp |-> Failure("Course not found"), raised |-> FALSE]
    ELSE IF f = 2 THEN error
    ELSE IF ~exists THEN [resp |-> Failure("Course not found"), raised |-> FALSE]
    ELSE IF f \in {3, 4} THEN error
    ELSE [resp |-> [success |-> TRUE,
                    course |-> FormatCourseForFrontend(course_doc, priceColumn)],
          raised |-> FALSE]

GetCourse(course_id, slug, hostOrder, f) ==
    LET r == GetCourseResult(catalog, hasPriceColumn, course_id, slug, hostOrder, f)
    IN
    /\ component = "catalog"
    /\ resp' = r.resp
    /\ last' = [op |-> "get_course", raised |-> r.raised, course_id |-> course_id,
                slug |-> slug]
    /\ UNCHANGED <<component, now, cache, authVars, progressVars, catalogVars, lessonVars, liveVars>>

(***************************************************************************)
(* Lesson content (course.py 977-1171).  The curriculum is fixed: lessons  *)
(* with their chapter and course fields (a lesson's course field, when     *)
(* set, is its chapter's course), chapters with their course, and courses  *)
(* with owner and instructor; course c2 of chapter ch2 has no LMS Course   *)
(* record.  Which lessons are previews and who is enrolled vary.           *)
(***************************************************************************)
LessonDocs ==
    [l \in {"l1", "l2", "l3", "l4"} |->
        IF l = "l1" THEN [chapter |-> "ch1", course |-> "", idx |-> 1]
        ELSE IF l = "l2" THEN [chapter |-> "ch1", course |-> "c1", idx |-> 2]
        ELSE IF l = "l3" THEN [chapter |-> "ch2", course |-> "", idx |-> 1]
        ELSE [chapter |-> "", course |-> "", idx |-> 1]]
ChapterDocs == [ch \in {"ch1", "ch2"} |-> IF ch = "ch1" THEN "c1" ELSE "c2"]
CourseDocs == [c \in {"c1"} |-> [owner |-> "own@x", instructor |-> "ins@x"]]
Viewers == {"a@x", "own@x", "ins@x", Guest}
LessonIdInputs == (DOMAIN LessonDocs) \cup {"", "lX"}
ChapterIdInputs == (DOMAIN ChapterDocs) \cup {"", "chX"}

\* course.py 1018-1024: the course of a lesson, "" when it has none
LessonCourse(l) ==
    IF LessonDocs[l].course # "" THEN LessonDocs[l].course
    ELSE IF LessonDocs[l].chapter # "" THEN ChapterDocs[LessonDocs[l].chapter]
    ELSE ""

\* course.py 1028-1037 and 1114-1122: access through the course
CourseAccessWithoutEnrollment(user, course, enr) ==
    /\ user # Guest
    /\ course # ""
CourseAccess(user, course, enr) ==
    /\ user # Guest
    /\ course # ""
    /\ \/ <<course, user>> \in enr
       \/ /\ course \in DOMAIN CourseDocs
          /\ (CourseDocs[course].owner = user \/ CourseDocs[course].instructor = user)

\* course.py 1040-1057 and 1136-1150: the lesson entry of a response
LessonData(l, is_preview, shown) ==
    IF shown
    THEN [id |-> l, isPreview |-> is_preview, content |-> <<"content", l>>,
          videoUrl |-> <<"video", l>>]
    ELSE [id |-> l, isPreview |-> is_preview, requiresEnrollment |-> TRUE]

(***************************************************************************)
(* get_lesson_details.  Host calls: 1 the existence checks, 2 the get_doc  *)
(* of the lesson and of its chapter, 3 the enrollment and course reads.    *)
(***************************************************************************)
LessonFaults == 0..3

GetLessonDetailsResult(prev, enr, user, lesson, f) ==
    LET done(r) == [resp |-> r, raised |-> FALSE]
        errored == [resp |-> Failure("An error occurred while fetching lesson details"),
                    raised |-> TRUE]
    IN
    IF lesson = "" THEN done(Failure("Lesson ID is required"))
    ELSE IF f = 1 THEN errored
    ELSE IF lesson \notin DOMAIN LessonDocs THEN done(Failure("Lesson not found"))
    ELSE IF f = 2 THEN errored
    ELSE LET is_preview == lesson \in prev
             course == LessonCourse(lesson)
             checks == user # Guest /\ course # ""
             has_access == is_preview \/ CourseAccess(user, course, enr)
         IN IF checks /\ f = 3 THEN errored
            ELSE done([success |-> TRUE, lesson |-> LessonData(lesson, is_preview, has_access),
                       hasAccess |-> has_access])

(***************************************************************************)
(* get_chapter_lessons.  Host calls: 1 the existence checks, 2 the get_doc *)
(* of the chapter, 3 the enrollment and course reads, 4 the get_all of the *)
(* lessons.                                                                *)
(***************************************************************************)
ChapterFaults == 0..4

\* the lessons of a chapter in idx order
RECURSIVE LessonsInOrder(_)
LessonsInOrder(S) ==
    IF S = {} THEN <<>>
    ELSE LET l == CHOOSE x \in S : \A y \in S : LessonDocs[x].idx <= LessonDocs[y].idx
         IN <<l>> \o LessonsInOrder(S \ {l})

GetChapterLessonsResult(prev, enr, user, chapter, f) ==
    LET done(r) == [resp |-> r, raised |-> FALSE]
        errored == [resp |-> Failure("An error occurred while fetching chapter lessons"),
                    raised |-> TRUE]
    IN
    IF chapter = "" THEN done(Failure("Chapter ID is required"))
    ELSE IF f = 1 THEN errored
    ELSE IF chapter \notin DOMAIN ChapterDocs THEN done(Failure("Chapter not found"))
    ELSE IF f = 2 THEN errored
    ELSE LET course == ChapterDocs[chapter]
             checks == user # Guest /\ course # ""
             has_access == CourseAccess(user, course, enr)
             ls == LessonsInOrder({l \in DOMAIN LessonDocs : LessonDocs[l].chapter = chapter})
         IN IF (checks /\ f = 3) \/ f = 4 THEN errored
            ELSE done([success |-> TRUE,
                       lessons |-> [i \in 1..Len(ls) |->
                                       LessonData(ls[i], ls[i] \in prev,
                                                  has_access \/ ls[i] \in prev)],
                       hasAccess |-> has_access])

GetLessonDetails(user, lesson, f) ==
    LET r == GetLessonDetailsResult(preview, enrolled, user, lesson, f)
    IN
    /\ component = "lessons"
    /\ resp' = r.resp
    /\ last' = [op |-> "get_lesson_details", raised |-> r.raised, user |-> user, id |-> lesson]
    /\ UNCHANGED <<component, now, cache, authVars, progressVars, catalogVars, lessonVars, liveVars>>

GetChapterLessons(user, chapter, f) ==
    LET r == GetChapterLessonsResult(preview, enrolled, user, chapter, f)
    IN
    /\ component = "lessons"
    /\ resp' = r.resp
    /\ last' = [op |-> "get_chapter_lessons", raised |-> r.raised, user |-> user, id |-> chapter]
    /\ UNCHANGED <<component, now, cache, authVars, progressVars, catalogVars, lessonVars, liveVars>>

(***************************************************************************)
(* Live classes (course.py 1736-1928).  The attendance list of a class is  *)
(* a JSON text in the cache; the participant count is a field of the       *)
(* class record where the doctype has that field.                          *)
(***************************************************************************)
MaxClasses == 2
LiveClassNames == <<"lc1", "lc2", "lc3">>
AttendanceTtl == 86400
LiveUsers == {"a@x", "b@x"}
ClassInputs == {"", "lc1", "lc2", "lcX"}
TitleInputs == {"", "Intro"}
MaxParticipantsInputs == {<<>>, <<0>>, <<1>>}
LiveStatuses == {"scheduled", "live", "completed", "cancelled"}

AttendanceKey(class) == <<"live_class_attendance", class>>

NewLiveClass(status, max_participants) ==
    [status |-> status, max_participants |-> max_participants, current_participants |-> 0]

\* course.py 1905: current_user in attendees
InListNever(q, x) == FALSE
InList(q, x) == \E i \in 1..Len(q) : q[i] = x

\* course.py 1899-1903: the cached list, [] when there is none
AttendeesRead(c, t, class) ==
    IF CacheHas(c, t, AttendanceKey(class))
    THEN JsonLoads(CacheGet(c, t, AttendanceKey(class)))
    ELSE <<>>

\* course.py 1854-1895: the refusals of join_live_class, None when it goes on
JoinRefusal(classes, user, class) ==
    IF user = Guest THEN "Authentication required to join live class"
    ELSE IF class = "" THEN "Live class ID is required"
    ELSE IF class \notin DOMAIN classes THEN "Live class not found"
    ELSE IF classes[class].status = "completed" THEN "This live class has ended"
    ELSE IF classes[class].status = "cancelled" THEN "This live class has been cancelled"
    ELSE None

\* course.py 1906-1907: the list a request writes is the list it read, with
\* the user appended
ListToWriteRereading(read, current, user) == Append(current, user)
ListToWrite(read, current, user) == Append(read, user)

JoinSuccess == [success |-> TRUE, meetingUrl |-> "url",
                message |-> "Joined live class successfully"]
JoinError == Failure("An error occurred while joining live class")

(***************************************************************************)
(* join_live_class as one uninterrupted request.  Host calls: 1 the        *)
(* existence checks, 2 the get_doc of the class, 3 the cache read, 4 the   *)
(* cache write, 5 the save of the class.                                   *)
(***************************************************************************)
JoinFaults == 0..5

JoinLiveClassResult(classes, hasCp, c, t, user, class, f) ==
    LET same(r, raised) == [classes |-> classes, cache |-> c, resp |-> r, raised |-> raised,
                            joined |-> FALSE, already |-> FALSE]
    IN
    IF user = Guest \/ class = "" THEN same(Failure(JoinRefusal(classes, user, class)), FALSE)
    ELSE IF f = 1 THEN same(JoinError, TRUE)
    ELSE IF class \notin DOMAIN classes THEN same(Failure(JoinRefusal(classes, user, class)), FALSE)
    ELSE IF f = 2 THEN same(JoinError, TRUE)
    ELSE IF JoinRefusal(classes, user, class) # None
         THEN same(Failure(JoinRefusal(classes, user, class)), FALSE)
    ELSE IF f = 3 THEN same(JoinError, TRUE)
    ELSE LET read == AttendeesRead(c, t, class)
         IN IF InList(read, user) THEN [same(JoinSuccess, FALSE) EXCEPT !.joined = TRUE, !.already = TRUE]
            ELSE IF f = 4 THEN same(JoinError, TRUE)
            ELSE LET attendees == ListToWrite(read, read, user)
                     c2 == CacheSet(c, t, AttendanceKey(class), JsonDumps(attendees),
                                    AttendanceTtl)
                 IN IF hasCp /\ f = 5
                    THEN [same(JoinError, TRUE) EXCEPT !.cache = c2]
                    ELSE [classes |-> IF hasCp
                                      THEN [classes EXCEPT
                                               ![class].current_participants = Len(attendees)]
                                      ELSE classes,
                          cache |-> c2, resp |-> JoinSuccess, raised |-> FALSE,
                          joined |-> TRUE, already |-> FALSE]

\* history: who joined with success since the attendance entry of the class began
JoinedAfter(j, c, t, class) ==
    IF CacheHas(c, t, AttendanceKey(class)) THEN j[class] ELSE {}

JoinLiveClass(user, class, f) ==
    LET r == JoinLiveClassResult(liveClasses, hasCurrentParticipants, cache, now, user, class, f)
    IN
    /\ component = "live"
    /\ liveClasses' = r.classes
    /\ cache' = r.cache
    /\ resp' = r.resp
    /\ last' = [op |-> "join_live_class", raised |-> r.raised, user |-> user, id |-> class,
                already |-> r.already]
    /\ joinedOk' = IF r.joined
                   THEN [joinedOk EXCEPT
                            ![class] = JoinedAfter(joinedOk, cache, now, class) \cup {user}]
                   ELSE joinedOk
    /\ UNCHANGED <<component, now, authVars, progressVars, catalogVars, lessonVars,
                   hasCurrentParticipants, reqs>>

(***************************************************************************)
(* create_live_class.  Host calls: 1 the existence checks, 2 new_doc,      *)
(* 3 the insert.  The host names the new record.                           *)
(***************************************************************************)
CreateFaults == 0..3

CreateLiveClass(user, title, max_participants, f) ==
    LET raised == user # Guest /\ title # "" /\ f # 0
        name == LiveClassNames[Cardinality(DOMAIN liveClasses) + 1]
        created == user # Guest /\ title # "" /\ f = 0
        limit == IF max_participants # <<>> /\ max_participants[1] # 0
                 THEN max_participants[1] ELSE 0
    IN
    /\ component = "live"
    /\ Cardinality(DOMAIN liveClasses) < MaxClasses
    /\ liveClasses' = IF created
                      THEN [n \in DOMAIN liveClasses \cup {name} |->
                               IF n = name THEN NewLiveClass("scheduled", limit)
                               ELSE liveClasses[n]]
                      ELSE liveClasses
    /\ joinedOk' = IF created
                   THEN [n \in DOMAIN liveClasses \cup {name} |->
                            IF n = name THEN {} ELSE joinedOk[n]]
                   ELSE joinedOk
    /\ resp' = IF user = Guest THEN Failure("Authentication required")
               ELSE IF title = "" THEN Failure("Title is required")
               ELSE IF raised THEN Failure("An error occurred while creating live class")
               ELSE [success |-> TRUE, liveClassId |-> name,
                     message |-> "Live class created successfully"]
    /\ last' = [op |-> "create_live_class", raised |-> raised, user |-> user, id |-> name]
    /\ UNCHANGED <<component, now, cache, authVars, progressVars, catalogVars, lessonVars,
                   hasCurrentParticipants, reqs>>

(***************************************************************************)
(* get_live_classes (course.py 1523-1652): the records in creation order,  *)
(* newest first, filtered by status and cut to a page.  Host calls: 1 the  *)
(* existence checks, 2 has_column, 3 get_all, 4 the User reads of the      *)
(* formatting.  The course, instructor and upcoming filters are left out.  *)
(***************************************************************************)
GetLiveFaults == 0..4
StatusInputs == {"", "scheduled", "completed"}

\* Python's a // b for b # 0
PyFloorDiv(a, b) == IF b > 0 THEN a \div b ELSE (0 - a) \div (0 - b)

\* course.py 1577-1582: the names of the records, newest first
RECURSIVE NewestFirst(_)
NewestFirst(names) ==
    IF names = {} THEN <<>>
    ELSE LET n == CHOOSE x \in names :
                     \A y \in names :
                         (CHOOSE i \in 1..Len(LiveClassNames) : LiveClassNames[i] = x)
                         >= (CHOOSE i \in 1..Len(LiveClassNames) : LiveClassNames[i] = y)
         IN <<n>> \o NewestFirst(names \ {n})

\* course.py 1606-1623
FormatLiveClass(classes, n) ==
    [id |-> n, status |-> classes[n].status,
     maxParticipants |-> classes[n].max_participants,
     currentParticipants |-> classes[n].current_participants]

GetLiveClassesResult(classes, a, f) ==
    LET page == CintOr(a.page, 1)
        page_size == CintOr(a.page_size, 10)
        names == NewestFirst({n \in DOMAIN classes :
                                 a.status # "" => classes[n].status = a.status})
        formatted == [i \in 1..Len(names) |-> FormatLiveClass(classes, names[i])]
        total_count == Len(formatted)
        raised == f \in {1, 3} \/ (f = 2 /\ a.status # "") \/ (f = 4 /\ names # <<>>)
    IN
    IF raised
    THEN [resp |-> [success |-> FALSE, liveClasses |-> <<>>,
                    message |-> "An error occurred while fetching live classes"],
          raised |-> TRUE]
    ELSE [resp |-> [success |-> TRUE,
                    liveClasses |-> PySlice(formatted, (page - 1) * page_size,
                                            (page - 1) * page_size + page_size),
                    totalCount |-> total_count, currentPage |-> page,
                    totalPages |-> PyFloorDiv(total_count + page_size - 1, page_size),
                    pageSize |-> page_size],
          raised |-> FALSE]

GetLiveClasses(a, f) ==
    LET r == GetLiveClassesResult(liveClasses, a, f)
    IN
    /\ component = "live"
    /\ resp' = r.resp
    /\ last' = [op |-> "get_live_classes", raised |-> r.raised, args |-> a]
    /\ UNCHANGED <<component, now, cache, authVars, progressVars, catalogVars, lessonVars,
                   liveVars>>

(***************************************************************************)
(* join_live_class as the steps of a request that other requests can       *)
(* interleave with: the reads (course.py 1853-1903), the cache write       *)
(* (1905-1907) and the save of the class record (1910-1913).  A save of a  *)
(* record that another request has saved since this one loaded it either   *)
(* goes through or raises, as the host decides.                            *)
(***************************************************************************)
Workers == {"w1", "w2"}
IdleRequest == [pc |-> "idle", user |-> Guest, class |-> "", read |-> <<>>,
                attendees |-> <<>>, loaded |-> NewLiveClass("scheduled", 0),
                resp |-> [success |-> FALSE, message |-> "none"]]

JoinBegin(w, user, class) ==
    LET refusal == JoinRefusal(liveClasses, user, class)
        read == AttendeesRead(cache, now, class)
    IN
    /\ component = "race"
    /\ reqs[w].pc \in {"idle", "done"}
    /\ reqs' = [reqs EXCEPT ![w] =
                  IF refusal # None
                  THEN [IdleRequest EXCEPT !.pc = "done", !.user = user, !.class = class,
                                           !.resp = Failure(refusal)]
                  ELSE IF InList(read, user)
                  THEN [IdleRequest EXCEPT !.pc = "done", !.user = user, !.class = class,
                                           !.read = read, !.attendees = read,
                                           !.resp = JoinSuccess]
                  ELSE [IdleRequest EXCEPT !.pc = "read", !.user = user, !.class = class,
                                           !.read = read, !.loaded = liveClasses[class]]]
    /\ UNCHANGED <<component, now, cache, authVars, progressVars, catalogVars, lessonVars,
                   liveClasses, hasCurrentParticipants, joinedOk, last, resp>>

JoinWrite(w) ==
    LET r == reqs[w]
        attendees == ListToWrite(r.read, AttendeesRead(cache, now, r.class), r.user)
    IN
    /\ component = "race"
    /\ r.pc = "read"
    /\ cache' = CacheSet(cache, now, AttendanceKey(r.class), JsonDumps(attendees), AttendanceTtl)
    /\ reqs' = [reqs EXCEPT ![w] =
                  IF hasCurrentParticipants
                  THEN [r EXCEPT !.pc = "written", !.attendees = attendees]
                  ELSE [r EXCEPT !.pc = "done", !.attendees = attendees, !.resp = JoinSuccess]]
    /\ UNCHANGED <<component, now, authVars, progressVars, catalogVars, lessonVars,
                   liveClasses, hasCurrentParticipants, joinedOk, last, resp>>

JoinSave(w, conflict) ==
    LET r == reqs[w]
    IN
    /\ component = "race"
    /\ r.pc = "written"
    /\ conflict => liveClasses[r.class] # r.loaded
    /\ liveClasses' = IF conflict THEN liveClasses
                      ELSE [liveClasses EXCEPT
                               ![r.class].current_participants = Len(r.attendees)]
    /\ reqs' = [reqs EXCEPT ![w] =
                  [r EXCEPT !.pc = "done", !.resp = IF conflict THEN JoinError ELSE JoinSuccess]]
    /\ UNCHANGED <<component, now, cache, authVars, progressVars, catalogVars, lessonVars,
                   hasCurrentParticipants, joinedOk, last, resp>>

(***************************************************************************)
(* Initial states.  Each specification below exercises one component of    *)
(* the application from the states that component can start in; the state  *)
(* of the other components is the empty site.                              *)
(***************************************************************************)
InitCommon ==
    /\ now = 0
    /\ cache = EmptyMap
    /\ last = [op |-> "none", raised |-> FALSE]
    /\ resp = [success |-> FALSE, message |-> "none"]

InitAuthState ==
    /\ users = [e \in {"a@x"} |-> "longpass1"]
    /\ nextToken = 0
    /\ usedRefresh = {}
    /\ issued = EmptyMap
    /\ loggedOut = {}

InitProgressState ==
    /\ progressDocs = <<>>
    /\ saved = NoSave
    /\ progressStore = "cache"

InitCatalogState ==
    /\ catalog = <<>>
    /\ hasPriceColumn = FALSE

InitLessonState ==
    /\ preview = {}
    /\ enrolled = {}

InitLiveState ==
    /\ liveClasses = [n \in {"lc1"} |-> NewLiveClass("scheduled", 0)]
    /\ hasCurrentParticipants = TRUE
    /\ joinedOk = [n \in {"lc1"} |-> {}]
    /\ reqs = [w \in Workers |-> IdleRequest]

InitAuth ==
    /\ component = "auth"
    /\ InitCommon /\ InitAuthState /\ InitProgressState /\ InitCatalogState /\ InitLessonState
    /\ InitLiveState

InitProgress ==
    /\ component = "progress"
    /\ InitCommon /\ InitAuthState /\ InitCatalogState /\ InitLessonState /\ InitLiveState
    /\ progressDocs = <<>>
    /\ saved = NoSave
    /\ progressStore \in {"doctype", "cache"}

InitStores ==
    /\ component = "stores"
    /\ InitCommon /\ InitAuthState /\ InitCatalogState /\ InitLessonState /\ InitLiveState
    /\ progressDocs = <<>>
    /\ saved = NoSave
    /\ progressStore = "both"

InitCatalog ==
    /\ component = "catalog"
    /\ InitCommon /\ InitAuthState /\ InitProgressState /\ InitLessonState /\ InitLiveState
    /\ catalog \in Catalogs
    /\ hasPriceColumn \in BOOLEAN

InitLessons ==
    /\ component = "lessons"
    /\ InitCommon /\ InitAuthState /\ InitProgressState /\ InitCatalogState /\ InitLiveState
    /\ preview \in SUBSET {"l1", "l3", "l4"}
    /\ enrolled \in SUBSET ({"c1", "c2"} \X {"a@x"})

InitOthersForLive ==
    InitCommon /\ InitAuthState /\ InitProgressState /\ InitCatalogState /\ InitLessonState

InitLive ==
    /\ component = "live"
    /\ InitOthersForLive
    /\ \E s \in LiveStatuses : liveClasses = [n \in {"lc1"} |-> NewLiveClass(s, 0)]
    /\ hasCurrentParticipants \in BOOLEAN
    /\ joinedOk = [n \in {"lc1"} |-> {}]
    /\ reqs = [w \in Workers |-> IdleRequest]

InitRace ==
    /\ component = "race"
    /\ InitOthersForLive
    /\ liveClasses = [n \in {"lc1"} |-> NewLiveClass("scheduled", 0)]
    /\ hasCurrentParticipants \in BOOLEAN
    /\ joinedOk = [n \in {"lc1"} |-> {}]
    /\ reqs = [w \in Workers |-> IdleRequest]

(***************************************************************************)
(* The specifications: the requests of one component, without host         *)
(* failures.                                                               *)
(***************************************************************************)
NextAuth ==
    \/ \E req \in LoginRequests : Login(req, 0)
    \/ \E req \in RegisterRequests : Register(req, 0)
    \/ \E b \in BearerInputs : Logout(b, 0)
    \/ \E req \in RefreshRequests : RefreshToken(req, 0)

SpecAuth == InitAuth /\ [][NextAuth]_vars

NextProgress ==
    \/ \E call \in SaveCalls : SaveProgress(call[1], call[2], 0)
    \/ \E call \in GetCalls : GetProgress(call[1], call[2], call[3], 0)
    \/ \E call \in MarkCalls : MarkLessonComplete(call[1], call[2], call[3], 0)

SpecProgress == InitProgress /\ [][NextProgress]_vars

NextStores ==
    \/ \E call \in LessonSaveCalls : SaveProgressOnBoth(call[1], call[2])
    \/ \E call \in LessonMarkCalls : MarkLessonCompleteOnBoth(call[1], call[2], call[3])

SpecStores == InitStores /\ [][NextStores]_vars

NextCatalog ==
    \/ \E a \in CourseRequests : GetCourses(a, 0)
    \/ \E id \in CourseIdInputs, slug \in SlugInputs, o \in HostOrders : GetCourse(id, slug, o, 0)

SpecCatalog == InitCatalog /\ [][NextCatalog]_vars

NextLessons ==
    \/ \E u \in Viewers, l \in LessonIdInputs : GetLessonDetails(u, l, 0)
    \/ \E u \in Viewers, ch \in ChapterIdInputs : GetChapterLessons(u, ch, 0)

SpecLessons == InitLessons /\ [][NextLessons]_vars

LiveInstants == {0, 1, 86400, 86401}

NextLive ==
    \/ \E u \in LiveUsers \cup {Guest}, class \in ClassInputs : JoinLiveClass(u, class, 0)
    \/ \E u \in {"a@x", Guest}, title \in TitleInputs, m \in MaxParticipantsInputs :
          CreateLiveClass(u, title, m, 0)
    \/ \E t \in LiveInstants : Tick(t)

SpecLive == InitLive /\ [][NextLive]_vars

NextRace ==
    \/ \E w \in Workers, u \in LiveUsers \cup {Guest}, class \in {"lc1", "lcX"} :
          JoinBegin(w, u, class)
    \/ \E w \in Workers : JoinWrite(w)
    \/ \E w \in Workers, conflict \in BOOLEAN : JoinSave(w, conflict)

SpecRace == InitRace /\ [][NextRace]_vars

(***************************************************************************)
(* Paging: get_courses and get_live_classes with every page and page_size  *)
(* of the model.                                                           *)
(***************************************************************************)
PagingCourseRequests ==
    {[DefaultCourseRequest EXCEPT !.page = pg, !.page_size = ps] :
        pg \in PageInputs, ps \in PageInputs}
LiveListRequests == [status : StatusInputs, page : PageInputs, page_size : PageInputs]

InitPaging == InitCatalog \/ InitLive

NextPaging ==
    \/ \E a \in PagingCourseRequests : GetCourses(a, 0)
    \/ \E a \in LiveListRequests : GetLiveClasses(a, 0)
    \/ \E m \in MaxParticipantsInputs : CreateLiveClass("a@x", "Intro", m, 0)

SpecPaging == InitPaging /\ [][NextPaging]_vars


(***************************************************************************)
(* The token lifetimes: the requests that issue or delete tokens, and the  *)
(* clock.                                                                  *)
(***************************************************************************)
TtlLoginRequests ==
    [email : {"a@x"}, password : {"longpass1", "short7c"}, remember_me : BOOLEAN, body : {NoBody}]
TtlRegisterRequests ==
    [full_name : {"Ann Lee"}, email : {"b@x"}, password : {"longpass1"},
     confirm_password : {"longpass1", ""}, body : {NoBody}]
TtlRefreshRequests == [refresh_token : RefreshInputs, body : {NoBody}]

NextTtl ==
    \/ \E req \in TtlLoginRequests : Login(req, 0)
    \/ \E req \in TtlRegisterRequests : Register(req, 0)
    \/ \E b \in BearerInputs : Logout(b, 0)
    \/ \E req \in TtlRefreshRequests : RefreshToken(req, 0)
    \/ \E t \in Instants : Tick(t)

SpecTtl == InitAuth /\ [][NextTtl]_vars

(***************************************************************************)
(* The refresh token lifetimes: the same requests, with the clock moving   *)
(* to the instants around one day and seven days.                          *)
(***************************************************************************)
RefreshInstants == {0, 1, 86399, 86400, 86401, 604799, 604800}

NextRefreshTtl ==
    \/ \E req \in TtlLoginRequests : Login(req, 0)
    \/ \E req \in TtlRegisterRequests : Register(req, 0)
    \/ \E req \in TtlRefreshRequests : RefreshToken(req, 0)
    \/ \E t \in RefreshInstants : Tick(t)

SpecRefreshTtl == InitAuth /\ [][NextRefreshTtl]_vars

(***************************************************************************)
(* Host failures: the requests of every component, each with any one of    *)
(* its host calls raising an exception, or none.                           *)
(***************************************************************************)
FaultSaveCalls ==
    {"a@x", Guest} \X [course : {"c1", ""}, lesson : {"l1", "l2"}, percent : {<<100>>},
                       completed : BOOLEAN]
FaultGetCalls == {"a@x", Guest} \X {"c1", "cX"} \X {"", "l1"}
FaultMarkCalls == {"a@x", Guest} \X {"l1", "lX"} \X {"", "c1"}
FaultCatalogs == {c \in Catalogs : Len(c) <= 1}

InitFault ==
    \/ InitAuth
    \/ InitProgress
    \/ InitCatalog /\ catalog \in FaultCatalogs
    \/ InitLessons
    \/ InitLive

NextFault ==
    \/ \E req \in TtlLoginRequests, f \in LoginFaults : Login(req, f)
    \/ \E req \in TtlRegisterRequests, f \in RegisterFaults : Register(req, f)
    \/ \E b \in BearerInputs, f \in LogoutFaults : Logout(b, f)
    \/ \E req \in TtlRefreshRequests, f \in RefreshFaults : RefreshToken(req, f)
    \/ \E call \in FaultSaveCalls, f \in SaveFaults : SaveProgress(call[1], call[2], f)
    \/ \E call \in FaultGetCalls, f \in GetFaults : GetProgress(call[1], call[2], call[3], f)
    \/ \E call \in FaultMarkCalls, f \in MarkFaults :
          MarkLessonComplete(call[1], call[2], call[3], f)
    \/ \E f \in GetCoursesFaults : GetCourses(DefaultCourseRequest, f)
    \/ \E id \in {"", "Data"}, slug \in {"", "data"}, f \in GetCourseFaults :
          GetCourse(id, slug, "newest", f)
    \/ \E u \in Viewers, l \in LessonIdInputs, f \in LessonFaults : GetLessonDetails(u, l, f)
    \/ \E u \in Viewers, ch \in ChapterIdInputs, f \in ChapterFaults :
          GetChapterLessons(u, ch, f)
    \/ \E u \in LiveUsers \cup {Guest}, class \in {"lc1", "lcX"}, f \in JoinFaults :
          JoinLiveClass(u, class, f)
    \/ \E u \in {"a@x", Guest}, title \in TitleInputs, f \in CreateFaults :
          CreateLiveClass(u, title, <<1>>, f)
    \/ \E st \in StatusInputs, f \in GetLiveFaults :
          GetLiveClasses([status |-> st, page |-> NoArg, page_size |-> NoArg], f)

SpecFault == InitFault /\ [][NextFault]_vars

(***************************************************************************)
(* Claims about the auth endpoints.                                        *)
(***************************************************************************)

\* C1: after a login whose non-empty email and password the login manager
\* accepted, the response has success = true and a token that is a non-empty
\* string, and validate_api_token(token) returns the logged-in user.
C1_LoginIssuesValidToken ==
    (last.op = "login" /\ last.accepted) =>
        /\ resp.success = TRUE
        /\ Len(resp.token) > 0
        /\ ValidateApiToken(cache, now, resp.token) = last.user
        /\ last.user \in DOMAIN users

C1_Witness ==
    /\ last.op = "login" /\ last.accepted /\ last.user = "a@x"
    /\ resp.success /\ resp.token = "tokC"

\* what a get_progress response for one lesson reports
ReportedPercent(r) ==
    IF r.kind = "cached" THEN r.progress.progress_percent ELSE r.progress.progressPercent
ReportedCompleted(r) ==
    IF r.kind = "cached" THEN r.progress.is_completed ELSE r.progress.isCompleted

\* C2: after a successful save_progress(course, lesson, progress_percent,
\* is_completed), get_progress(course, lesson) by the same user returns exactly
\* the saved percentage and completion flag, whatever was saved for the pair
\* before and whichever storage is in use.
C2_SaveThenGetRoundTrips ==
    (saved.user # Guest /\ saved.args.lesson \in DOMAIN Lessons /\ saved.args.percent # <<>>) =>
        LET r == GetProgressResult(progressStore, progressDocs, cache, now, saved.user,
                                   saved.args.course, saved.args.lesson, 0).resp
        IN /\ r.success
           /\ r.kind \in {"cached", "record"}
           /\ ReportedPercent(r) = Flt(saved.args.percent)
           /\ ReportedCompleted(r) = saved.args.completed

\* the round trip of C2 with the cache fallback only
C2_CacheRoundTrips == progressStore = "cache" => C2_SaveThenGetRoundTrips

\* the courses of the catalogue that pass every filter of a request
CoursesMatching(a) ==
    {i \in 1..Len(catalog) :
        /\ MatchesDbFilters(catalog[i], a) /\ MatchesSearch(catalog[i], a)
        /\ MatchesPriceRange(catalog[i], a, hasPriceColumn) /\ MatchesRating(catalog[i], a)}

\* C3: in every successful get_courses response with pageSize >= 1, totalPages
\* is the ceiling of totalCount / pageSize (3 pages for 25 courses at 10 a
\* page), and totalCount is the number of courses matching the filters,
\* whatever page and page_size were asked for.
C3_TotalPagesIsCeiling ==
    /\ TotalPages(25, 10) = 3
    /\ (last.op = "get_courses" /\ resp.success /\ resp.pageSize >= 1) =>
          /\ resp.totalPages * resp.pageSize >= resp.totalCount
          /\ (resp.totalPages - 1) * resp.pageSize < resp.totalCount
          /\ resp.totalPages >= 0
          /\ resp.totalCount = Cardinality(CoursesMatching(last.args))

C3_Witness ==
    /\ last.op = "get_courses" /\ resp.success
    /\ resp.totalCount = 3 /\ resp.pageSize = 2 /\ resp.totalPages = 2
    /\ resp.currentPage = 3

C5_Entitled(user, l) ==
    \/ l \in preview
    \/ /\ user # Guest
       /\ \E c \in {"c1", "c2"} :
             /\ c = LessonCourse(l)
             /\ \/ <<c, user>> \in enrolled
                \/ (c \in DOMAIN CourseDocs /\ user \in {CourseDocs[c].owner, CourseDocs[c].instructor})

C5_EntryGated(user, d) ==
    IF C5_Entitled(user, d.id)
    THEN "content" \in DOMAIN d => "requiresEnrollment" \notin DOMAIN d
    ELSE /\ "content" \notin DOMAIN d /\ "videoUrl" \notin DOMAIN d
         /\ "requiresEnrollment" \in DOMAIN d /\ d.requiresEnrollment = TRUE

\* C5: get_lesson_details and get_chapter_lessons include a lesson's content and
\* videoUrl only if the lesson is a preview or the session user is not Guest
\* and is enrolled in, owner of or instructor of the lesson's course; every
\* other entry carries requiresEnrollment = true and no content.
C5_ContentIsGated ==
    /\ (last.op = "get_lesson_details" /\ resp.success) => C5_EntryGated(last.user, resp.lesson)
    /\ (last.op = "get_chapter_lessons" /\ resp.success) =>
          \A i \in 1..Len(resp.lessons) : C5_EntryGated(last.user, resp.lessons[i])

C5_Witness ==
    /\ last.op = "get_chapter_lessons" /\ resp.success /\ last.user = Guest
    /\ Len(resp.lessons) = 2
    /\ "content" \in DOMAIN resp.lessons[1]
    /\ "requiresEnrollment" \in DOMAIN resp.lessons[2]
    /\ <<"c1", "a@x">> \in enrolled

\* the attendance list of a class holds every user who joined with success
\* exactly once, and the participant count is its length
C9_AttendanceConsistent ==
    \A class \in DOMAIN liveClasses :
        CacheHas(cache, now, AttendanceKey(class)) =>
            LET list == AttendeesRead(cache, now, class)
            IN /\ \A u \in joinedOk[class] :
                     Cardinality({i \in 1..Len(list) : list[i] = u}) = 1
               /\ hasCurrentParticipants =>
                     liveClasses[class].current_participants = Len(list)

\* a join by a user who is in the list writes neither the list nor the record
C9_RepeatedJoinChangesNothing ==
    (/\ last'.op = "join_live_class" /\ resp'.success
     /\ InList(AttendeesRead(cache, now, last'.id), last'.user))
        => (cache' = cache /\ liveClasses' = liveClasses)

C6_LostUpdate(w, v) ==
    /\ w # v
    /\ reqs[w].pc = "done" /\ reqs[v].pc = "done"
    /\ reqs[w].resp.success /\ reqs[v].resp.success
    /\ reqs[w].class = reqs[v].class /\ reqs[w].user # reqs[v].user
    /\ reqs[w].read = <<>> /\ reqs[v].read = <<>>
    /\ reqs[w].attendees # <<>> /\ reqs[v].attendees # <<>>

\* C6: two concurrent join_live_class requests by different users for the same
\* class can each read the cached attendance list before the other writes it;
\* when both have then returned success, the stored list holds only one of the
\* two users and current_participants is 1.
C6_ConcurrentJoinsLoseUpdate ==
    \A w, v \in Workers :
        C6_LostUpdate(w, v) =>
            LET list == AttendeesRead(cache, now, reqs[w].class)
            IN /\ Len(list) = 1
               /\ list[1] \in {reqs[w].user, reqs[v].user}
               /\ hasCurrentParticipants =>
                     liveClasses[reqs[w].class].current_participants = 1

C6_Witness ==
    /\ C6_LostUpdate("w1", "w2")
    /\ hasCurrentParticipants
    /\ AttendeesRead(cache, now, "lc1") = <<"b@x">>
    /\ reqs["w1"].user = "a@x"
    /\ liveClasses["lc1"].current_participants = 1

\* C7: an API token issued by login, register or refresh_token validates to its
\* user at every time less than 3600 seconds after its issue unless a logout
\* deleted it, and to None from 3600 seconds after its issue on; the expiresIn
\* of the response that issued it is that lifetime, 3600.
C7_ApiTokenLifetime ==
    /\ \A tok \in DOMAIN issued :
          issued[tok].kind = "api" =>
              ValidateApiToken(cache, now, tok) =
                  IF now < issued[tok].at + 3600 /\ tok \notin loggedOut
                  THEN issued[tok].user ELSE None
    /\ (last.op \in {"login", "register", "refresh_token"} /\ resp.success) =>
          resp.expiresIn = 3600

C7_Witness ==
    /\ now = 3600
    /\ \E old, young \in DOMAIN issued :
          /\ issued[old].kind = "api" /\ issued[old].at = 0 /\ old \notin loggedOut
          /\ issued[young].kind = "api" /\ issued[young].at = 1 /\ young \notin loggedOut
          /\ ValidateApiToken(cache, now, old) = None
          /\ ValidateApiToken(cache, now, young) = issued[young].user

\* the grounds on which C8 says register must refuse, on the arguments the
\* handler validates and the User records before the request
C8_MustRefuse(a, u) ==
    \/ a.full_name = "" \/ a.email = "" \/ a.password = ""
    \/ a.password # a.confirm_password
    \/ Len(a.password) < 8
    \/ a.email \in DOMAIN u

\* C8: register returns success = false, creates no User record and stores no
\* API or refresh token when the name, email or password is missing, the
\* passwords differ, the password has fewer than 8 characters or a User with
\* that email exists already.
C8_RegisterRefuses ==
    [][(last'.op = "register" /\ C8_MustRefuse(last'.args, users)) =>
          /\ resp'.success = FALSE
          /\ users' = users
          /\ cache' = cache]_vars

C8_Witness ==
    /\ last.op = "register" /\ resp.success = FALSE
    /\ last.args.full_name # "" /\ last.args.email = "b@x"
    /\ last.args.password = "short7c" /\ last.args.confirm_password = "short7c"
    /\ "b@x" \notin DOMAIN users

\* C10: a successful refresh_token(R) deletes R and issues a new API token and
\* a new refresh token bound to the user R was issued to; every later
\* refresh_token(R) returns success = false with 'Invalid or expired refresh
\* token' and stores nothing.
C10_RefreshTokenSingleUse ==
    [][last'.op = "refresh_token" =>
          /\ resp'.success =>
                /\ CacheGet(cache', now', RefreshKey(last'.token)) = None
                /\ last'.token \in DOMAIN issued
                /\ ValidateApiToken(cache', now', resp'.token) = issued[last'.token].user
                /\ CacheGet(cache', now', RefreshKey(resp'.refreshToken)) = issued[last'.token].user
                /\ resp'.token # resp'.refreshToken
          /\ last'.token \in usedRefresh =>
                /\ resp' = Failure("Invalid or expired refresh token")
                /\ cache' = cache]_vars

C10_Witness ==
    /\ last.op = "refresh_token" /\ last.token \in usedRefresh
    /\ resp = Failure("Invalid or expired refresh token")

\* C11: after a successful logout whose Authorization header is 'Bearer T',
\* for a token T that was issued, validate_api_token(T) returns None at every
\* later time.
C11_LoggedOutTokenStaysInvalid ==
    \A tok \in loggedOut : ValidateApiToken(cache, now, tok) = None

C11_Witness ==
    /\ last.op \in {"login", "refresh_token"} /\ resp.success
    /\ \E tok \in loggedOut :
          /\ issued[tok].kind = "api"
          /\ issued[tok].at < now /\ now < issued[tok].at + ApiTokenTtl
          /\ ValidateApiToken(cache, now, tok) = None

\* the lifetime C12 gives a refresh token: 7 days when it was issued by a
\* login with remember_me, else 1 day
C12_Lifetime(tok) == IF issued[tok].remember THEN 604800 ELSE 86400

C13_PricesWithinRange ==
    (last.op = "get_courses" /\ resp.success) =>
        \A i \in 1..Len(resp.courses) :
            /\ last.args.min_price # <<>> => last.args.min_price[1] <= resp.courses[i].price
            /\ last.args.max_price # <<>> => resp.courses[i].price <= last.args.max_price[1]

\* the position of a course in the catalogue, which is in creation order,
\* newest first
C14_CreationRank(id) == CHOOSE k \in 1..Len(catalog) : catalog[k].name = id

C14_Ordered(q, sort_by) ==
    \A i, j \in 1..Len(q) :
        i < j =>
            /\ sort_by = "newest" => C14_CreationRank(q[i].id) < C14_CreationRank(q[j].id)
            /\ sort_by = "popular" => q[i].students >= q[j].students
            /\ sort_by = "rating" => q[i].rating >= q[j].rating
            /\ sort_by = "price_low" => q[i].price <= q[j].price
            /\ sort_by = "price_high" => q[i].price >= q[j].price

\* C14: the full result list of get_courses (a first page that holds every
\* result) is ordered according to sort_by: newest by creation time
\* descending, popular by student count non-increasing, rating by rating
\* non-increasing, price_low by reported price non-decreasing and price_high
\* by reported price non-increasing.
C14_ResultsOrdered ==
    (/\ last.op = "get_courses" /\ resp.success
     /\ resp.currentPage = 1 /\ resp.totalCount <= resp.pageSize)
        => C14_Ordered(resp.courses, last.args.sort_by)

\* the items of a page of either listing
C15_Items == IF last.op = "get_courses" THEN resp.courses ELSE resp.liveClasses

\* C15: for every page and page_size supplied to get_courses or
\* get_live_classes (zero, negative and non-numeric values included), a
\* successful response has pageSize >= 1 and currentPage >= 1, holds at most
\* pageSize items, and holds no items when currentPage > totalPages.
C15_PagingIsRobust ==
    (last.op \in {"get_courses", "get_live_classes"} /\ resp.success) =>
        /\ resp.pageSize >= 1
        /\ resp.currentPage >= 1
        /\ Len(C15_Items) <= resp.pageSize
        /\ resp.currentPage > resp.totalPages => C15_Items = <<>>

\* completedLessons of get_progress(course) by the user
C16_Completed(store, docs, c, t, user, course) ==
    GetProgressResult(store, docs, c, t, user, course, "", 0).resp.progress.completedLessons

C17_CapacityRespected ==
    \A n \in DOMAIN liveClasses :
        liveClasses[n].max_participants > 0
            => /\ Len(AttendeesRead(cache, now, n)) <= liveClasses[n].max_participants
               /\ liveClasses[n].current_participants <= liveClasses[n].max_participants

\* C18: for every existing course c, get_course(slug = s) with s the slug that
\* format_course_for_frontend reports for c returns success = true with
\* course.id = c, whatever other courses exist.
C18_SlugFindsItsCourse ==
    \A i \in DOMAIN catalog :
        (/\ last.op = "get_course" /\ last.course_id = "" /\ last.slug # ""
         /\ Chars(last.slug) = FormatCourseForFrontend(catalog[i], hasPriceColumn).slug)
            => resp.success /\ resp.course.id = catalog[i].name

C19_Users == {"a@x", "b@x"}
C19_OnDoctype(user, course, lesson) ==
    GetProgressResult("doctype", progressDocs, EmptyMap, now, user, course, lesson, 0).resp
C19_OnCache(user, course, lesson) ==
    GetProgressResult("cache", <<>>, cache, now, user, course, lesson, 0).resp

\* C19: after every sequence of save_progress and mark_lesson_complete calls
\* that carry a lesson_id, get_progress reports the same completion flag and
\* progress percentage for each lesson, and the same completedLessons for the
\* course, on the deployment with a progress doctype and on the one that
\* stores progress in the cache.
C19_StoresAgree ==
    \A user \in C19_Users, course \in Courses :
        /\ C19_OnDoctype(user, course, "").progress.completedLessons
              = C19_OnCache(user, course, "").progress.completedLessons
        /\ \A lesson \in LessonsOfCourse(course) :
              LET d == C19_OnDoctype(user, course, lesson)
                  k == C19_OnCache(user, course, lesson)
              IN /\ (d.kind = "none") <=> (k.kind = "none")
                 /\ d.kind # "none" =>
                       /\ ReportedPercent(d) = ReportedPercent(k)
                       /\ ReportedCompleted(d) = ReportedCompleted(k)

====
